---- MODULE Spec2Model ----
(***************************************************************************)
(* followthepattern/wiki: the theme configuration (src/theme.config.tsx),  *)
(* the application root wrapper (src/pages/_app.js) and the Go programs    *)
(* the content pages document (under src/pages).                          *)
(*                                                                         *)
(* SpecSite         the site: page loads, route changes, renders           *)
(* SpecDoubleClose  channels.md, the double-close program                  *)
(* SpecCounter      mutex.mdx / sync.mdx, the Counter program              *)
(* SpecPrograms     channels.md and the WaitGroup page: the other programs *)
(* SpecRace         the Counter program without Lock and Unlock            *)
(***************************************************************************)
EXTENDS Integers, Sequences, FiniteSets, TLC

VARIABLES
    config,     \* the theme configuration object (theme.config.tsx:28-46)
    pages,      \* route -> the content page the author wrote
    router,     \* what useRouter() returns: asPath, locale, defaultLocale
    loaded,     \* a document has been loaded in the browser
    dom,        \* the script tags of the current document, in order
    loadCache,  \* next/script: the srcs already loaded in this document
    appOut,     \* the last render of App: its props and what it returned
    headOut,    \* the last render of Head: its inputs and what it returned
    kept,       \* some earlier render of Head, remembered for comparison
    seo,        \* the last result of config.useNextSeoProps()
    lastEvent,  \* the framework's last event: load, navigate or rerender
    pc,         \* Go programs: goroutine -> position
    chan,       \* Go programs: the channel ch
    mu,         \* Go programs: the mutex, its holder or NoHolder
    value,      \* Go programs: counter.value
    tmp,        \* Go programs: goroutine -> the value read by value++
    iter,       \* Go programs: goroutine -> its loop variable i
    out,        \* Go programs: what main has printed
    status,     \* Go programs: running, exited, or panicked
    prog,       \* Go programs: which documented program is running
    wg,         \* Go programs: the WaitGroup counter
    clock       \* Go programs: the time and the timers of time.Sleep, time.After

siteVars == <<config, pages, router, loaded, dom, loadCache, appOut, headOut,
              kept, seo, lastEvent>>
goVars == <<pc, chan, mu, value, tmp, iter, out, status, prog, wg, clock>>
otherVars == <<siteVars, prog, wg, clock>>
vars == <<config, pages, router, loaded, dom, loadCache, appOut, headOut,
          kept, seo, lastEvent, pc, chan, mu, value, tmp, iter, out, status,
          prog, wg, clock>>

(***************************************************************************)
(* JavaScript values                                                       *)
(***************************************************************************)
Undefined == [t |-> "undefined"]
Str(s) == [t |-> "string", v |-> s]
None == [t |-> "none"]

\* JsToString of a template literal or of + with a string operand
JsToString(x) == IF x.t = "undefined" THEN "undefined" ELSE x.v

\* a + b where one operand is a string
JsPlus(a, b) == Str(JsToString(a) \o JsToString(b))

\* a === b
StrictEq(a, b) == a = b

\* falsy values among undefined and strings: undefined and ''
Falsy(x) == x.t = "undefined" \/ (x.t = "string" /\ x.v = "")

\* a || b
JsOr(a, b) == IF Falsy(a) THEN b ELSE a

\* obj.key of an object; a missing key reads as undefined
Get(obj, key) == IF key \in DOMAIN obj THEN obj[key] ELSE Undefined

\* {...obj}: the own properties of obj, copied
Spread(obj) == [k \in DOMAIN obj |-> obj[k]]

(***************************************************************************)
(* src/theme.config.tsx                                                    *)
(***************************************************************************)
WikiLink == Str("https://wiki.followthepattern.net")
DiscordLink == Str("https://discord.com/invite/kDuKyG4EET")

DefaultTitle == Str("Follow The Pattern")
DefaultDescription == Str("Modern web application development")

\* Head with og:url always carrying the locale
HeadAlwaysLocale(r, c) ==
    IF c.frontMatter = Undefined THEN [kind |-> "throw"]
    ELSE [kind |-> "tags",
          ogUrl |-> JsPlus(WikiLink,
                           Str("/" \o JsToString(r.locale) \o JsToString(r.asPath))),
          ogTitle |-> JsOr(c.title, DefaultTitle),
          ogDescription |-> JsOr(Get(c.frontMatter, "description"),
                                 DefaultDescription)]

\* Head reading a property of the description, which throws on undefined
HeadStrict(r, c) ==
    IF c.frontMatter = Undefined
       \/ Get(c.frontMatter, "description") = Undefined
    THEN [kind |-> "throw"]
    ELSE [kind |-> "tags",
          ogUrl |-> JsPlus(WikiLink,
                           IF StrictEq(r.defaultLocale, r.locale)
                           THEN r.asPath
                           ELSE Str("/" \o JsToString(r.locale) \o JsToString(r.asPath))),
          ogTitle |-> JsOr(c.title, DefaultTitle),
          ogDescription |-> JsOr(Get(c.frontMatter, "description"),
                                 DefaultDescription)]

\* Head falling back to what the previous render produced
HeadShared(r, c) ==
    IF c.frontMatter = Undefined THEN [kind |-> "throw"]
    ELSE [kind |-> "tags",
          ogUrl |-> JsPlus(WikiLink,
                           IF StrictEq(r.defaultLocale, r.locale)
                           THEN r.asPath
                           ELSE Str("/" \o JsToString(r.locale) \o JsToString(r.asPath))),
          ogTitle |-> JsOr(c.title,
                           IF headOut = None \/ headOut.out.kind # "tags"
                           THEN DefaultTitle ELSE headOut.out.ogTitle),
          ogDescription |-> JsOr(Get(c.frontMatter, "description"),
                                 DefaultDescription)]

\* Head using one test for both fallbacks
HeadCoupled(r, c) ==
    IF c.frontMatter = Undefined THEN [kind |-> "throw"]
    ELSE [kind |-> "tags",
          ogUrl |-> JsPlus(WikiLink,
                           IF StrictEq(r.defaultLocale, r.locale)
                           THEN r.asPath
                           ELSE Str("/" \o JsToString(r.locale) \o JsToString(r.asPath))),
          ogTitle |-> JsOr(c.title, DefaultTitle),
          ogDescription |-> IF Falsy(c.title) THEN DefaultDescription
                            ELSE JsOr(Get(c.frontMatter, "description"),
                                      DefaultDescription)]

\* function Head(): r is what useRouter() returns, c what useConfig() returns.
\* Reading frontMatter.description throws a TypeError when frontMatter is
\* undefined; otherwise the three meta tags are returned.
HeadComponent(r, c) ==
    IF c.frontMatter = Undefined THEN [kind |-> "throw"]
    ELSE [kind |-> "tags",
          ogUrl |-> JsPlus(WikiLink,
                           IF StrictEq(r.defaultLocale, r.locale)
                           THEN r.asPath
                           ELSE Str("/" \o JsToString(r.locale) \o JsToString(r.asPath))),
          ogTitle |-> JsOr(c.title, DefaultTitle),
          ogDescription |-> JsOr(Get(c.frontMatter, "description"),
                                 DefaultDescription)]

\* useNextSeoProps()
UseNextSeoProps == [titleTemplate |-> "%s | Follow The Pattern"]

\* const config: DocsThemeConfig = {...}
ThemeConfig ==
    [logo |-> "Logo",
     project |-> [link |-> Str("https://github.com/followthepattern/wiki")],
     chat |-> [link |-> DiscordLink],
     footer |-> [text |-> Str("(c) 2024 Follow The Pattern. All rights reserved.")],
     docsRepositoryBase |-> Str("https://github.com/followthepattern/wiki/tree/main/"),
     useNextSeoProps |-> "useNextSeoProps",
     head |-> "Head"]

(***************************************************************************)
(* src/pages/_app.js                                                       *)
(***************************************************************************)
AnalyticsSrc == "https://followthepattern.s3.us-east-2.amazonaws.com/fp/fp-analytics.js"

\* App without the Script element
AppNoScript(Component, pageProps) ==
    [scripts |-> <<>>, component |-> Component, props |-> Spread(pageProps)]

\* App rendering the component without its props
AppDropProps(Component, pageProps) ==
    [scripts |-> <<AnalyticsSrc>>, component |-> Component, props |-> <<>>]

\* function App({ Component, pageProps }): the Script element and
\* <Component {...pageProps} />
App(Component, pageProps) ==
    [scripts |-> <<AnalyticsSrc>>, component |-> Component,
     props |-> Spread(pageProps)]


(***************************************************************************)
(* The framework around them: routing, the document, next/script, and the  *)
(* content pages                                                           *)
(***************************************************************************)
MaxDomScripts == 2

EmptyObj == [k \in {} |-> Undefined]

Routes == {"/select", "/sync/mutex"}
Locales == {Undefined, Str("en"), Str("hu")}
DefaultLocales == {Undefined, Str("en")}
RouterInputs ==
    {[asPath |-> Str(p), locale |-> l, defaultLocale |-> d] :
        p \in Routes, l \in Locales, d \in DefaultLocales}

\* src/pages/sync/mutex.mdx, its front matter
MutexPage ==
    [title |-> Str("Mutex"),
     frontMatter |->
        [title |-> Str("Mutex"),
         description |-> Str("You can use mutex to lock a variable that multiple goroutines want to modify concurrently")],
     pageProps |-> EmptyObj,
     component |-> "/sync/mutex"]

\* what a page can hand to Head and App: a title that is undefined, empty or
\* present, front matter with or without a description, page props
Titles == {Undefined, Str(""), Str("Select")}
FrontMatters == {EmptyObj, [description |-> Str("")],
                 [description |-> Str("Select statement")]}
SelectPages ==
    {[title |-> t, frontMatter |-> f, pageProps |-> [ssg |-> Str("data")],
      component |-> "/select"] :
        t \in Titles, f \in FrontMatters}

\* useRouter()
UseRouter == router

\* useConfig(): the title and the front matter of the page of the route
UseConfig ==
    [title |-> pages[router.asPath.v].title,
     frontMatter |-> pages[router.asPath.v].frontMatter]

\* next/script: a Script element appends its tag to the document unless its
\* src was loaded in this document before
RECURSIVE MountScripts(_, _, _)
MountScripts(scripts, d, cache) ==
    IF scripts = <<>> THEN [dom |-> d, cache |-> cache]
    ELSE LET src == scripts[1] IN
         IF src \in cache
         THEN MountScripts(Tail(scripts), d, cache)
         ELSE MountScripts(Tail(scripts), Append(d, src), cache \cup {src})

\* the framework renders App for route p into a document holding the tags d
RenderAppInto(p, d, cache) ==
    LET o == App(pages[p].component, pages[p].pageProps)
        m == MountScripts(o.scripts, d, cache)
    IN  /\ Len(m.dom) <= MaxDomScripts
        /\ appOut' = [in |-> [Component |-> pages[p].component,
                              pageProps |-> pages[p].pageProps],
                      out |-> o]
        /\ dom' = m.dom
        /\ loadCache' = m.cache

GoIdle ==
    /\ pc = EmptyObj /\ chan = None /\ mu = None /\ value = 0
    /\ tmp = EmptyObj /\ iter = EmptyObj /\ out = <<>> /\ status = "idle"
    /\ prog = "none" /\ wg = 0 /\ clock = None

SiteInit ==
    /\ config = ThemeConfig
    /\ \E sp \in SelectPages :
          pages = [p \in Routes |-> IF p = "/select" THEN sp ELSE MutexPage]
    /\ router = None
    /\ loaded = FALSE
    /\ dom = <<>>
    /\ loadCache = {}
    /\ appOut = None
    /\ headOut = None
    /\ kept = None
    /\ seo = None
    /\ lastEvent = "none"
    /\ GoIdle

\* a page load: a fresh document, then App is rendered for the route
PageLoad(r) ==
    /\ router' = r
    /\ loaded' = TRUE
    /\ RenderAppInto(r.asPath.v, <<>>, {})
    /\ headOut' = None
    /\ lastEvent' = "load"
    /\ UNCHANGED <<config, pages, kept, seo>>
    /\ UNCHANGED goVars

\* a client-side route change: the document stays, App is rendered again
Navigate(r) ==
    /\ loaded
    /\ r # router
    /\ router' = r
    /\ RenderAppInto(r.asPath.v, dom, loadCache)
    /\ lastEvent' = "navigate"
    /\ UNCHANGED <<config, pages, loaded, headOut, kept, seo>>
    /\ UNCHANGED goVars

\* a re-render of App on the same route
RerenderApp ==
    /\ loaded
    /\ RenderAppInto(router.asPath.v, dom, loadCache)
    /\ lastEvent' = "rerender"
    /\ UNCHANGED <<config, pages, router, loaded, headOut, kept, seo>>
    /\ UNCHANGED goVars

\* RenderHead storing the fallback description in the page's front matter
RenderHeadStoring ==
    /\ loaded
    /\ headOut' = [in |-> [router |-> UseRouter, config |-> UseConfig],
                   out |-> HeadComponent(UseRouter, UseConfig)]
    /\ kept' \in {kept, headOut}
    /\ pages' = [pages EXCEPT ![router.asPath.v].frontMatter =
                    [k \in DOMAIN @ \cup {"description"} |->
                        IF k = "description"
                        THEN JsOr(Get(@, "description"), DefaultDescription)
                        ELSE @[k]]]
    /\ UNCHANGED <<config, router, loaded, dom, loadCache, appOut, seo, lastEvent>>
    /\ UNCHANGED goVars

\* the theme renders config.head; the previous render, or the one kept
\* before it, stays remembered
RenderHead ==
    /\ loaded
    /\ headOut' = [in |-> [router |-> UseRouter, config |-> UseConfig],
                   out |-> HeadComponent(UseRouter, UseConfig)]
    /\ kept' \in {kept, headOut}
    /\ UNCHANGED <<config, pages, router, loaded, dom, loadCache, appOut, seo,
                   lastEvent>>
    /\ UNCHANGED goVars

\* CallUseNextSeoProps caching its result on the configuration object
CallUseNextSeoPropsCaching ==
    /\ loaded
    /\ seo' = UseNextSeoProps
    /\ config' = [config EXCEPT !.useNextSeoProps = "cached"]
    /\ UNCHANGED <<pages, router, loaded, dom, loadCache, appOut, headOut, kept,
                   lastEvent>>
    /\ UNCHANGED goVars

\* the theme calls config.useNextSeoProps()
CallUseNextSeoProps ==
    /\ loaded
    /\ seo' = UseNextSeoProps
    /\ UNCHANGED <<config, pages, router, loaded, dom, loadCache, appOut,
                   headOut, kept, lastEvent>>
    /\ UNCHANGED goVars

SiteNext ==
    \/ \E r \in RouterInputs : PageLoad(r)
    \/ \E r \in RouterInputs : Navigate(r)
    \/ RerenderApp
    \/ RenderHead
    \/ CallUseNextSeoProps

SpecSite == SiteInit /\ [][SiteNext]_vars


(***************************************************************************)
(* Properties of the site                                                  *)
(***************************************************************************)
RenderedHead(h) == h # None

\* the URL the routing input r stands for: WikiLink + asPath when the locale
\* is the default one, WikiLink + "/" + locale + asPath otherwise
CanonicalUrl(r) ==
    IF r.locale = r.defaultLocale
    THEN WikiLink.v \o r.asPath.v
    ELSE WikiLink.v \o "/" \o JsToString(r.locale) \o r.asPath.v

\* C1: for every routing input, og:url is WikiLink + asPath when locale equals
\* defaultLocale (both undefined included) and WikiLink + "/" + locale + asPath
\* otherwise, and nothing else.
C1_OgUrl ==
    RenderedHead(headOut) =>
        /\ headOut.out.kind = "tags"
        /\ headOut.out.ogUrl = Str(CanonicalUrl(headOut.in.router))

\* C1 witness: one render without i18n (both locales undefined) and one render
\* under a locale that is not the default one.
C1_Witness ==
    /\ RenderedHead(kept) /\ RenderedHead(headOut)
    /\ kept.in.router.locale = Undefined
    /\ kept.in.router.defaultLocale = Undefined
    /\ kept.out.ogUrl = Str(WikiLink.v \o kept.in.router.asPath.v)
    /\ headOut.in.router.locale = Str("hu")
    /\ headOut.in.router.defaultLocale = Str("en")
    /\ headOut.out.ogUrl = Str("https://wiki.followthepattern.net/hu/sync/mutex")

AnalyticsTags == {i \in 1..Len(dom) : dom[i] = AnalyticsSrc}

\* C2: once a page is loaded, whatever route changes and re-renders follow, the
\* document holds exactly one analytics script tag, and the last render of App
\* rendered the page component of the current route.
C2_ScriptOncePerLoad ==
    loaded =>
        /\ Cardinality(AnalyticsTags) = 1
        /\ appOut # None
        /\ appOut.out.component = pages[router.asPath.v].component

\* C2 witness: a route change after the page load, with the one tag in place.
C2_Witness ==
    /\ loaded
    /\ lastEvent = "navigate"
    /\ dom = <<AnalyticsSrc>>
    /\ appOut.out.component = "/select"

\* C3: the theme configuration keeps the value it was initialized with, in
\* every field, whatever the program does.
C3_ConfigImmutable == config = ThemeConfig

\* C3 witness: Head was rendered, useNextSeoProps was called, App was rendered
\* and a route change took place.
C3_Witness ==
    /\ RenderedHead(headOut)
    /\ seo = UseNextSeoProps
    /\ appOut # None
    /\ lastEvent = "navigate"

\* C4: rendering Head never throws: for every title (present, empty,
\* undefined), front matter (with or without a description) and pair of
\* locales, it returns the three meta tags, each with a string content.
C4_HeadNeverThrows ==
    RenderedHead(headOut) =>
        /\ headOut.out.kind = "tags"
        /\ headOut.out.ogUrl.t = "string"
        /\ headOut.out.ogTitle.t = "string"
        /\ headOut.out.ogDescription.t = "string"

\* C4 witness: a render with an undefined title, front matter without a
\* description, and an undefined locale beside a defined default locale.
C4_Witness ==
    /\ RenderedHead(headOut)
    /\ headOut.in.config.title = Undefined
    /\ headOut.in.config.frontMatter = EmptyObj
    /\ headOut.in.router.locale = Undefined
    /\ headOut.in.router.defaultLocale = Str("en")
    /\ headOut.out.kind = "tags"

\* C5: no step of the program changes the title, the front matter or the page
\* props of any page.
C5_PagesReadOnly == [][pages' = pages]_vars

\* C5 witness: Head was rendered more than once and App was re-rendered.
C5_Witness ==
    /\ RenderedHead(headOut) /\ RenderedHead(kept)
    /\ lastEvent = "rerender"
    /\ appOut # None

\* C6: any two renders of Head with equal inputs produced equal tags, whatever
\* was rendered before or between them.
C6_HeadDependsOnInputsOnly ==
    (RenderedHead(kept) /\ RenderedHead(headOut) /\ kept.in = headOut.in)
        => kept.out = headOut.out

\* C6 witness: two renders of Head with the same inputs (an undefined title
\* among them) and the same tags.
C6_Witness ==
    /\ RenderedHead(kept) /\ RenderedHead(headOut)
    /\ kept.in = headOut.in
    /\ kept.in.config.title = Undefined
    /\ kept.out = headOut.out

\* C7: App renders the Component it was given with the pageProps it was given:
\* the same keys with the same values.
C7_AppPassesProps ==
    appOut # None =>
        /\ appOut.out.component = appOut.in.Component
        /\ DOMAIN appOut.out.props = DOMAIN appOut.in.pageProps
        /\ \A k \in DOMAIN appOut.in.pageProps :
              appOut.out.props[k] = appOut.in.pageProps[k]

\* C7 witness: a render of App with page props that are not empty.
C7_Witness ==
    /\ appOut # None
    /\ appOut.in.pageProps = [ssg |-> Str("data")]
    /\ appOut.out.props = [ssg |-> Str("data")]

NonEmptyString(x) == x.t = "string" /\ x.v # ""

\* C8: og:title is the page title if it is a non-empty string and 'Follow The
\* Pattern' otherwise; og:description is frontMatter.description if it is a
\* non-empty string and 'Modern web application development' otherwise.
C8_Fallbacks ==
    RenderedHead(headOut) =>
        LET t == headOut.in.config.title
            d == Get(headOut.in.config.frontMatter, "description")
        IN  /\ headOut.out.kind = "tags"
            /\ headOut.out.ogTitle =
                  IF NonEmptyString(t) THEN t ELSE Str("Follow The Pattern")
            /\ headOut.out.ogDescription =
                  IF NonEmptyString(d) THEN d
                  ELSE Str("Modern web application development")

\* C8 witness: a render using both of the page's own values, and a render
\* using the page's own title with the description fallback.
C8_Witness ==
    /\ RenderedHead(kept) /\ RenderedHead(headOut)
    /\ kept.in.config.title = Str("Mutex")
    /\ kept.out.ogTitle = Str("Mutex")
    /\ kept.out.ogDescription = MutexPage.frontMatter.description
    /\ headOut.in.config.title = Str("Select")
    /\ headOut.in.config.frontMatter = EmptyObj
    /\ headOut.out.ogTitle = Str("Select")
    /\ headOut.out.ogDescription = Str("Modern web application development")


(***************************************************************************)
(* The documented Go programs: goroutines, channels, the mutex             *)
(***************************************************************************)
Main == 0
NoHolder == -1

\* the site is not involved while a Go program runs
SiteIdle ==
    /\ config = ThemeConfig
    /\ pages = [p \in Routes |-> MutexPage]
    /\ router = None /\ loaded = FALSE /\ dom = <<>> /\ loadCache = {}
    /\ appOut = None /\ headOut = None /\ kept = None /\ seo = None
    /\ lastEvent = "none"

Running == status = "running"

\* make(chan int): an unbuffered channel, open
MakeChan == [cap |-> 0, buf |-> <<>>, closed |-> FALSE]

\* close(c) on a closed channel panics; otherwise the channel becomes closed
CloseChan(c) ==
    IF c.closed THEN [panic |-> TRUE, chan |-> c]
    ELSE [panic |-> FALSE, chan |-> [c EXCEPT !.closed = TRUE]]

(***************************************************************************)
(* src/pages/golang/channels.md, lines 306-330: closing a channel twice    *)
(***************************************************************************)
Sender == 1
NumValues == 20

DoubleCloseInit ==
    /\ SiteIdle
    /\ pc = [g \in {Main, Sender} |-> IF g = Main THEN "make" ELSE "unborn"]
    /\ chan = None
    /\ mu = NoHolder
    /\ value = 0
    /\ tmp = [g \in {Main} |-> 0]
    /\ iter = [g \in {Sender} |-> 0]
    /\ out = <<>>
    /\ status = "running"
    /\ prog = "doubleclose"
    /\ wg = 0
    /\ clock = None

\* ch := make(chan int)
DC_Make ==
    /\ Running /\ pc[Main] = "make"
    /\ chan' = MakeChan
    /\ pc' = [pc EXCEPT ![Main] = "go"]
    /\ UNCHANGED <<mu, value, tmp, iter, out, status>>
    /\ UNCHANGED otherVars

\* go sender(ch)
DC_Go ==
    /\ Running /\ pc[Main] = "go"
    /\ pc' = [pc EXCEPT ![Main] = "range", ![Sender] = "for"]
    /\ iter' = [iter EXCEPT ![Sender] = 0]
    /\ UNCHANGED <<chan, mu, value, tmp, out, status>>
    /\ UNCHANGED otherVars

\* for i := 0; i < 20; ... : the loop condition
DC_For ==
    /\ Running /\ pc[Sender] = "for"
    /\ pc' = [pc EXCEPT ![Sender] =
                 IF iter[Sender] < NumValues THEN "send" ELSE "close1"]
    /\ UNCHANGED <<chan, mu, value, tmp, iter, out, status>>
    /\ UNCHANGED otherVars

\* ch <- i meets main's receive of the range loop: the channel is unbuffered,
\* so the send completes only together with a receive
DC_SendRecv ==
    /\ Running /\ pc[Sender] = "send" /\ pc[Main] = "range"
    /\ ~chan.closed
    /\ tmp' = [tmp EXCEPT ![Main] = iter[Sender]]
    /\ pc' = [pc EXCEPT ![Sender] = "post", ![Main] = "print"]
    /\ UNCHANGED <<chan, mu, value, iter, out, status>>
    /\ UNCHANGED otherVars

\* i++
DC_Post ==
    /\ Running /\ pc[Sender] = "post"
    /\ iter' = [iter EXCEPT ![Sender] = @ + 1]
    /\ pc' = [pc EXCEPT ![Sender] = "for"]
    /\ UNCHANGED <<chan, mu, value, tmp, out, status>>
    /\ UNCHANGED otherVars

\* fmt.Println(v)
DC_Print ==
    /\ Running /\ pc[Main] = "print"
    /\ out' = Append(out, tmp[Main])
    /\ pc' = [pc EXCEPT ![Main] = "range"]
    /\ UNCHANGED <<chan, mu, value, tmp, iter, status>>
    /\ UNCHANGED otherVars

\* the range loop finds the channel closed and empty: the loop ends
DC_RangeEnd ==
    /\ Running /\ pc[Main] = "range"
    /\ chan.closed /\ chan.buf = <<>>
    /\ pc' = [pc EXCEPT ![Main] = "return"]
    /\ UNCHANGED <<chan, mu, value, tmp, iter, out, status>>
    /\ UNCHANGED otherVars

\* main returns: the program exits, whatever the other goroutines are doing
DC_Return ==
    /\ Running /\ pc[Main] = "return"
    /\ status' = "exited"
    /\ pc' = [pc EXCEPT ![Main] = "returned"]
    /\ UNCHANGED <<chan, mu, value, tmp, iter, out>>
    /\ UNCHANGED otherVars

\* the first close(ch)
DC_Close1 ==
    /\ Running /\ pc[Sender] = "close1"
    /\ LET r == CloseChan(chan) IN
         /\ chan' = r.chan
         /\ status' = IF r.panic THEN "panic" ELSE status
         /\ pc' = [pc EXCEPT ![Sender] = IF r.panic THEN @ ELSE "close2"]
    /\ UNCHANGED <<mu, value, tmp, iter, out>>
    /\ UNCHANGED otherVars

\* the second close(ch)
DC_Close2 ==
    /\ Running /\ pc[Sender] = "close2"
    /\ LET r == CloseChan(chan) IN
         /\ chan' = r.chan
         /\ status' = IF r.panic THEN "panic" ELSE status
         /\ pc' = [pc EXCEPT ![Sender] = IF r.panic THEN @ ELSE "end"]
    /\ UNCHANGED <<mu, value, tmp, iter, out>>
    /\ UNCHANGED otherVars

DoubleCloseNext ==
    \/ DC_Make
    \/ DC_Go
    \/ DC_For
    \/ DC_SendRecv
    \/ DC_Post
    \/ DC_Print
    \/ DC_RangeEnd
    \/ DC_Return
    \/ DC_Close1
    \/ DC_Close2

SpecDoubleClose == DoubleCloseInit /\ [][DoubleCloseNext]_vars

\* C9: in the double-close program the second close panics in every
\* execution: main never returns normally, the program never exits without
\* the panic.
C9_AlwaysPanics == status # "exited"

\* the second close never completes: it panics whenever it runs
C9_SecondClosePanics == pc[Sender] # "end"

\* the outcomes of the program: the panic, and main returning first
C9_PanicReached == status = "panic" /\ pc[Sender] = "close2" /\ Len(out) = NumValues


(***************************************************************************)
(* src/pages/sync/mutex.mdx, lines 14-43 (the same program as              *)
(* src/pages/standard-library/sync.mdx, lines 44-73): the Counter          *)
(***************************************************************************)
NumGoroutines == 10
Workers == 1..NumGoroutines

\* Lock that does not wait for the holder to unlock
CanLockAlways == TRUE

\* counter.Lock() proceeds only while nobody holds the mutex
CanLock == mu = NoHolder

CounterInit ==
    /\ SiteIdle
    /\ pc = [g \in {Main} \cup Workers |-> IF g = Main THEN "for" ELSE "unborn"]
    /\ chan = None
    /\ mu = NoHolder
    /\ value = 0
    /\ tmp = [g \in Workers |-> 0]
    /\ iter = [g \in {Main} |-> 0]
    /\ out = <<>>
    /\ status = "running"
    /\ prog = "counter"
    /\ wg = 0
    /\ clock = None

\* for i := 0; i < 10; i++ { go func(i int) {...}(i) }: one iteration starts
\* the next goroutine; after the last one main goes on to time.Sleep
CT_For ==
    /\ Running /\ pc[Main] = "for"
    /\ IF iter[Main] < NumGoroutines
       THEN /\ pc' = [pc EXCEPT ![iter[Main] + 1] = "lock"]
            /\ iter' = [iter EXCEPT ![Main] = @ + 1]
       ELSE /\ pc' = [pc EXCEPT ![Main] = "sleep"]
            /\ UNCHANGED iter
    /\ UNCHANGED <<chan, mu, value, tmp, out, status>>
    /\ UNCHANGED otherVars

\* goroutine g: counter.Lock()
CT_Lock(g) ==
    /\ Running /\ pc[g] = "lock"
    /\ CanLock
    /\ mu' = g
    /\ pc' = [pc EXCEPT ![g] = "read"]
    /\ UNCHANGED <<chan, value, tmp, iter, out, status>>
    /\ UNCHANGED otherVars

\* goroutine g: counter.value++, the read
CT_Read(g) ==
    /\ Running /\ pc[g] = "read"
    /\ tmp' = [tmp EXCEPT ![g] = value]
    /\ pc' = [pc EXCEPT ![g] = "write"]
    /\ UNCHANGED <<chan, mu, value, iter, out, status>>
    /\ UNCHANGED otherVars

\* goroutine g: counter.value++, the write; the value read is dead afterwards
CT_Write(g) ==
    /\ Running /\ pc[g] = "write"
    /\ value' = tmp[g] + 1
    /\ tmp' = [tmp EXCEPT ![g] = 0]
    /\ pc' = [pc EXCEPT ![g] = "defer"]
    /\ UNCHANGED <<chan, mu, iter, out, status>>
    /\ UNCHANGED otherVars

\* goroutine g: defer counter.Unlock()
CT_Defer(g) ==
    /\ Running /\ pc[g] = "defer"
    /\ pc' = [pc EXCEPT ![g] = "return"]
    /\ UNCHANGED <<chan, mu, value, tmp, iter, out, status>>
    /\ UNCHANGED otherVars

\* goroutine g returns: the deferred counter.Unlock() runs
CT_Return(g) ==
    /\ Running /\ pc[g] = "return"
    /\ mu' = NoHolder
    /\ pc' = [pc EXCEPT ![g] = "done"]
    /\ UNCHANGED <<chan, value, tmp, iter, out, status>>
    /\ UNCHANGED otherVars

\* main: time.Sleep(time.Second) is over
CT_Sleep ==
    /\ Running /\ pc[Main] = "sleep"
    /\ pc' = [pc EXCEPT ![Main] = "lock"]
    /\ UNCHANGED <<chan, mu, value, tmp, iter, out, status>>
    /\ UNCHANGED otherVars

\* main: counter.Lock()
CT_MainLock ==
    /\ Running /\ pc[Main] = "lock"
    /\ CanLock
    /\ mu' = Main
    /\ pc' = [pc EXCEPT ![Main] = "defer"]
    /\ UNCHANGED <<chan, value, tmp, iter, out, status>>
    /\ UNCHANGED otherVars

\* main: defer counter.Unlock()
CT_MainDefer ==
    /\ Running /\ pc[Main] = "defer"
    /\ pc' = [pc EXCEPT ![Main] = "print"]
    /\ UNCHANGED <<chan, mu, value, tmp, iter, out, status>>
    /\ UNCHANGED otherVars

\* main: fmt.Println("counter", counter.value)
CT_MainPrint ==
    /\ Running /\ pc[Main] = "print"
    /\ out' = Append(out, value)
    /\ pc' = [pc EXCEPT ![Main] = "return"]
    /\ UNCHANGED <<chan, mu, value, tmp, iter, status>>
    /\ UNCHANGED otherVars

\* main returns: the deferred counter.Unlock() runs
CT_MainReturn ==
    /\ Running /\ pc[Main] = "return"
    /\ mu' = NoHolder
    /\ pc' = [pc EXCEPT ![Main] = "returned"]
    /\ UNCHANGED <<chan, value, tmp, iter, out, status>>
    /\ UNCHANGED otherVars

\* the program exits once main has returned
CT_Exit ==
    /\ Running /\ pc[Main] = "returned"
    /\ status' = "exited"
    /\ UNCHANGED <<pc, chan, mu, value, tmp, iter, out>>
    /\ UNCHANGED otherVars

CounterNext ==
    \/ CT_For
    \/ \E g \in Workers : CT_Lock(g)
    \/ \E g \in Workers : CT_Read(g)
    \/ \E g \in Workers : CT_Write(g)
    \/ \E g \in Workers : CT_Defer(g)
    \/ \E g \in Workers : CT_Return(g)
    \/ CT_Sleep
    \/ CT_MainLock
    \/ CT_MainDefer
    \/ CT_MainPrint
    \/ CT_MainReturn
    \/ CT_Exit

\* the runtime keeps running goroutines while one of them can take a step
SpecCounter == CounterInit /\ [][CounterNext]_vars /\ WF_vars(CounterNext)

\* between Lock and the deferred Unlock
Holding(g) ==
    IF g = Main THEN pc[g] \in {"defer", "print", "return"}
    ELSE pc[g] \in {"read", "write", "defer", "return"}

\* the goroutines whose value++ is complete
Incremented == {g \in Workers : pc[g] \in {"defer", "return", "done"}}

C10_MutualExclusion ==
    /\ Cardinality({g \in {Main} \cup Workers : Holding(g)}) <= 1
    /\ \A g \in {Main} \cup Workers : Holding(g) <=> mu = g

C10_NoLostIncrement ==
    /\ value = Cardinality(Incremented)
    /\ (\A g \in Workers : pc[g] = "done") => value = NumGoroutines

\* C10: in the Counter program at most one goroutine is between Lock and
\* Unlock at any time, the value always equals the number of goroutines that
\* have completed their increment (10 once all have finished), a goroutine
\* holds the mutex only between its Lock and its Unlock, and main's final Lock
\* is eventually granted.
C10_Counter ==
    /\ [](C10_MutualExclusion /\ C10_NoLostIncrement)
    /\ <>(pc[Main] \in {"defer", "print", "return", "returned"})

\* C10 witness: all ten goroutines have incremented and unlocked, and main
\* holds the mutex and has printed 10.
C10_Witness ==
    /\ \A g \in Workers : pc[g] = "done"
    /\ mu = Main
    /\ out = <<NumGoroutines>>


(***************************************************************************)
(* The race page ("Example of a Race Condition Error"): the Counter        *)
(* program with Lock and Unlock commented out in the goroutines            *)
(***************************************************************************)
\* the page starts ten goroutines; the first MaxRacers of them are run here
MaxRacers == 5
Racers == 1..MaxRacers

RaceInit ==
    /\ SiteIdle
    /\ pc = [g \in {Main} \cup Racers |-> IF g = Main THEN "for" ELSE "unborn"]
    /\ chan = None
    /\ mu = NoHolder
    /\ value = 0
    /\ tmp = [g \in Racers |-> 0]
    /\ iter = [g \in {Main} |-> 0]
    /\ out = <<>>
    /\ status = "running"
    /\ prog = "race"
    /\ wg = 0
    /\ clock = None

\* for i := 0; i < 10; i++ { go func(i int) {...}(i) }
RC_For ==
    /\ Running /\ pc[Main] = "for"
    /\ IF iter[Main] < MaxRacers
       THEN /\ pc' = [pc EXCEPT ![iter[Main] + 1] = "read"]
            /\ iter' = [iter EXCEPT ![Main] = @ + 1]
       ELSE /\ pc' = [pc EXCEPT ![Main] = "sleep"]
            /\ UNCHANGED iter
    /\ UNCHANGED <<chan, mu, value, tmp, out, status>>
    /\ UNCHANGED otherVars

\* goroutine g: counter.value++, the write adding two
RC_WriteTwo(g) ==
    /\ Running /\ pc[g] = "write"
    /\ value' = tmp[g] + 2
    /\ tmp' = [tmp EXCEPT ![g] = 0]
    /\ pc' = [pc EXCEPT ![g] = "done"]
    /\ UNCHANGED <<chan, mu, iter, out, status>>
    /\ UNCHANGED otherVars

\* goroutine g: counter.value++, the write; then the goroutine returns
RC_Write(g) ==
    /\ Running /\ pc[g] = "write"
    /\ value' = tmp[g] + 1
    /\ tmp' = [tmp EXCEPT ![g] = 0]
    /\ pc' = [pc EXCEPT ![g] = "done"]
    /\ UNCHANGED <<chan, mu, iter, out, status>>
    /\ UNCHANGED otherVars

RaceNext ==
    \/ RC_For
    \/ \E g \in Racers : CT_Read(g)
    \/ \E g \in Racers : RC_Write(g)
    \/ CT_Sleep
    \/ CT_MainLock
    \/ CT_MainDefer
    \/ CT_MainPrint
    \/ CT_MainReturn
    \/ CT_Exit

SpecRace == RaceInit /\ [][RaceNext]_vars


\* the racing goroutines whose value++ is complete
RaceIncremented == {g \in Racers : pc[g] = "done"}

\* C11: in the race program (value++ as a read followed by a write, no Lock)
\* increments can only be lost, never gained: the value never exceeds the
\* number of completed increments, and it is at least 1 and at most the number
\* of goroutines once all of them have run; interleavings in which increments
\* overwrite each other are reachable (the witness).
C11_IncrementsCanBeLost ==
    /\ value <= Cardinality(RaceIncremented)
    /\ (RaceIncremented = Racers) => (value >= 1 /\ value <= MaxRacers)
    /\ \A i \in 1..Len(out) : out[i] <= MaxRacers

\* C11 witness: every goroutine has run, each overwrote the others' increment,
\* and main printed 1 instead of the number of goroutines.
C11_Witness ==
    /\ RaceIncremented = Racers
    /\ value = 1
    /\ value < MaxRacers
    /\ out = <<1>>
    /\ status = "exited"


(***************************************************************************)
(* The other documented programs, as instruction lists run by one set of   *)
(* steps.  pc[g] is the index of goroutine g's next instruction, 0 before  *)
(* the go statement that starts it.                                        *)
(***************************************************************************)
IMake(c, n, z) == [op |-> "make", ch |-> c, cap |-> n, zero |-> z]
IVar(c) == [op |-> "var", ch |-> c]
IGo(g) == [op |-> "go", g |-> g]
IGoI == [op |-> "goi"]
ISend(c, v) == [op |-> "send", ch |-> c, val |-> v]
ISendI(c) == [op |-> "sendi", ch |-> c]
IRecv(c) == [op |-> "recv", ch |-> c]
IRange(c, exit) == [op |-> "range", ch |-> c, to |-> exit]
IClose(c) == [op |-> "close", ch |-> c]
IPrintTmp == [op |-> "printtmp"]
IPrint(v) == [op |-> "print", val |-> v]
IPrintID == [op |-> "printid"]
IFor(n, exit) == [op |-> "for", n |-> n, to |-> exit]
IPost(k) == [op |-> "post", to |-> k]
IJump(k) == [op |-> "jump", to |-> k]
IIfOk(else) == [op |-> "ifok", to |-> else]
ISleep == [op |-> "sleep"]
IWgAdd(n) == [op |-> "wgadd", n |-> n]
IWgDone == [op |-> "wgdone"]
IWgWait == [op |-> "wgwait"]

\* fmt.Println(<-ch)
PrintRecv(c) == <<IRecv(c), IPrintTmp>>

\* the invisible-lock program with the third send in place
InvisibleThreeSends ==
    [g \in 0..1 |->
        IF g = Main
        THEN <<IMake("ch", 0, ""), IGo(1), ISend("ch", "Follow"),
               ISend("ch", "The"), ISleep, ISend("ch", "Pattern")>>
        ELSE PrintRecv("ch") \o PrintRecv("ch") \o PrintRecv("ch")
             \o <<IPrint("Finish printing")>>]

\* channels.md 76-98: main sends two values, the goroutine receives three times
InvisibleLock ==
    [g \in 0..1 |->
        IF g = Main
        THEN <<IMake("ch", 0, ""), IGo(1), ISend("ch", "Follow"),
               ISend("ch", "The"), ISleep>>
        ELSE PrintRecv("ch") \o PrintRecv("ch") \o PrintRecv("ch")
             \o <<IPrint("Finish printing")>>]

\* the deadlock program with the third send in place
DeadlockThreeSends ==
    [g \in 0..1 |->
        IF g = Main
        THEN <<IMake("ch", 0, ""), IGo(1)>>
             \o PrintRecv("ch") \o PrintRecv("ch") \o PrintRecv("ch")
        ELSE <<ISend("ch", "Follow"), ISend("ch", "The"), ISend("ch", "Pattern")>>]

\* channels.md 106-126: the goroutine sends two values, main receives three times
DeadlockExample ==
    [g \in 0..1 |->
        IF g = Main
        THEN <<IMake("ch", 0, ""), IGo(1)>>
             \o PrintRecv("ch") \o PrintRecv("ch") \o PrintRecv("ch")
        ELSE <<ISend("ch", "Follow"), ISend("ch", "The")>>]

\* the buffered program on an unbuffered channel
BufferedUnbuffered ==
    [g \in 0..1 |->
        IF g = Main
        THEN <<IMake("ch", 0, ""), IGo(1), ISend("ch", "Follow"),
               ISend("ch", "The"), ISend("ch", "Pattern")>>
        ELSE PrintRecv("ch") \o PrintRecv("ch")]

\* channels.md 141-160: capacity 1, two receives, three sends
Buffered ==
    [g \in 0..1 |->
        IF g = Main
        THEN <<IMake("ch", 1, ""), IGo(1), ISend("ch", "Follow"),
               ISend("ch", "The"), ISend("ch", "Pattern")>>
        ELSE PrintRecv("ch") \o PrintRecv("ch")]

\* the out-of-capacity program on a channel of capacity 2
OutOfCapacityRoomy ==
    [g \in 0..1 |->
        IF g = Main
        THEN <<IMake("ch", 2, ""), IGo(1), ISend("ch", "Follow"),
               ISend("ch", "The"), ISend("ch", "Pattern"), ISend("ch", "!")>>
        ELSE PrintRecv("ch") \o PrintRecv("ch")]

\* channels.md 166-185: capacity 1, two receives, four sends
OutOfCapacity ==
    [g \in 0..1 |->
        IF g = Main
        THEN <<IMake("ch", 1, ""), IGo(1), ISend("ch", "Follow"),
               ISend("ch", "The"), ISend("ch", "Pattern"), ISend("ch", "!")>>
        ELSE PrintRecv("ch") \o PrintRecv("ch")]

\* for i := 0; i < 20; i++ { ch <- i }, starting at instruction 1
SendLoop == <<IFor(NumValues, 4), ISendI("ch"), IPost(1)>>

\* the range program with the close left out
RangeNoClose ==
    [g \in 0..1 |->
        IF g = Main
        THEN <<IMake("ch", 0, 0), IGo(1), IRange("ch", 6), IPrintTmp, IJump(3)>>
        ELSE SendLoop]

\* channels.md 248-271: sender sends 0..19 and closes, main ranges
RangeExample ==
    [g \in 0..1 |->
        IF g = Main
        THEN <<IMake("ch", 0, 0), IGo(1), IRange("ch", 6), IPrintTmp, IJump(3)>>
        ELSE SendLoop \o <<IClose("ch")>>]

\* the send-on-closed program with the send before the close
SendThenClose ==
    [g \in 0..1 |->
        IF g = Main
        THEN <<IMake("ch", 0, 0), IMake("done", 0, 0), IGo(1),
               IRange("ch", 7), IPrintTmp, IJump(4), IRecv("done")>>
        ELSE SendLoop \o <<ISend("ch", NumValues), IClose("ch"),
                           ISend("done", 0)>>]

\* channels.md 336-364: a send after the close, then done is signalled
SendOnClosed ==
    [g \in 0..1 |->
        IF g = Main
        THEN <<IMake("ch", 0, 0), IMake("done", 0, 0), IGo(1),
               IRange("ch", 7), IPrintTmp, IJump(4), IRecv("done")>>
        ELSE SendLoop \o <<IClose("ch"), ISend("ch", NumValues),
                           ISend("done", 0)>>]

\* if value, ok := <-ch; ok { Println(value) } else { Println("channel is
\* closed") }, starting at instruction k
CheckedRecv(c, k) ==
    <<IRecv(c), IIfOk(k + 4), IPrintTmp, IJump(k + 5),
      IPrint("channel is closed")>>

\* channels.md 283-298: close, then a checked receive
CloseCheck ==
    [g \in 0..0 |-> <<IMake("ch", 0, ""), IClose("ch")>> \o CheckedRecv("ch", 3)]

\* channels.md 371-375, the table "How Channels Work": its cells that no
\* program of the page runs, each as a program
ClosedBuffered ==
    [g \in 0..0 |->
        <<IMake("ch", 2, ""), ISend("ch", "a"), ISend("ch", "b"), IClose("ch")>>
        \o CheckedRecv("ch", 5) \o CheckedRecv("ch", 10) \o CheckedRecv("ch", 15)]

NilRead ==
    [g \in 0..1 |->
        IF g = Main THEN <<IVar("ch"), IGo(1), IRecv("ch"), IPrintTmp>>
        ELSE <<ISleep>>]

NilWrite ==
    [g \in 0..1 |->
        IF g = Main THEN <<IVar("ch"), IGo(1), ISend("ch", "a")>>
        ELSE PrintRecv("ch")]

WriteClosedBuffered ==
    [g \in 0..0 |-> <<IMake("ch", 1, ""), IClose("ch"), ISend("ch", "a")>>]

CloseClosedBuffered ==
    [g \in 0..0 |-> <<IMake("ch", 1, ""), IClose("ch"), IClose("ch")>>]

CloseNil ==
    [g \in 0..0 |-> <<IVar("ch"), IClose("ch")>>]


NumberOfRoutines == 5

\* WaitGroup page 11-32 (and sync.mdx 17-38): Add(1), one goroutine, Wait
WgSingle ==
    [g \in 0..1 |->
        IF g = Main
        THEN <<IWgAdd(1), IGo(1), IWgWait, IPrint("Program finished!")>>
        ELSE <<IPrint("Hello Follow The Pattern"), ISleep, IWgDone>>]

\* WaitGroup page 38-60: Add(5), five goroutines printing their ID, Wait
WgFive ==
    [g \in 0..NumberOfRoutines |->
        IF g = Main
        THEN <<IWgAdd(NumberOfRoutines), IFor(NumberOfRoutines, 5), IGoI,
               IPost(2), IWgWait>>
        ELSE <<IPrintID, IWgDone>>]

\* the no-Done program with the Done in place
WgNoDoneFixed ==
    [g \in 0..1 |->
        IF g = Main
        THEN <<IWgAdd(1), IGo(1), IWgWait, IPrint("Program finished!")>>
        ELSE <<IPrint("Hello Follow The Pattern"), ISleep, IWgDone>>]

\* WaitGroup page 95-116: Add(1), a goroutine that never calls Done, Wait
WgNoDone ==
    [g \in 0..1 |->
        IF g = Main
        THEN <<IWgAdd(1), IGo(1), IWgWait, IPrint("Program finished!")>>
        ELSE <<IPrint("Hello Follow The Pattern"), ISleep>>]

\* the without-Wait program with the Wait in place
WgNoWaitWaiting ==
    [g \in 0..1 |->
        IF g = Main
        THEN <<IWgAdd(1), IGo(1), IWgWait, IPrint("Program finished!")>>
        ELSE <<IPrint("Hello Follow The Pattern"), ISleep, IWgDone>>]

\* WaitGroup page 68-89: Add(1), one goroutine, Wait commented out
WgNoWait ==
    [g \in 0..1 |->
        IF g = Main
        THEN <<IWgAdd(1), IGo(1), IPrint("Program finished!")>>
        ELSE <<IPrint("Hello Follow The Pattern"), ISleep, IWgDone>>]

ProgramNames ==
    {"invisible", "deadlock", "buffered", "outofcapacity", "range",
     "sendonclosed", "closecheck", "closedbuffered", "nilread", "nilwrite",
     "writeclosedbuffered", "closeclosedbuffered", "closenil",
     "wgsingle", "wgfive", "wgnodone", "wgnowait"}

Code(p) ==
    CASE p = "invisible" -> InvisibleLock
      [] p = "deadlock" -> DeadlockExample
      [] p = "buffered" -> Buffered
      [] p = "outofcapacity" -> OutOfCapacity
      [] p = "range" -> RangeExample
      [] p = "sendonclosed" -> SendOnClosed
      [] p = "closecheck" -> CloseCheck
      [] p = "closedbuffered" -> ClosedBuffered
      [] p = "nilread" -> NilRead
      [] p = "nilwrite" -> NilWrite
      [] p = "writeclosedbuffered" -> WriteClosedBuffered
      [] p = "closeclosedbuffered" -> CloseClosedBuffered
      [] p = "closenil" -> CloseNil
      [] p = "wgsingle" -> WgSingle
      [] p = "wgfive" -> WgFive
      [] p = "wgnodone" -> WgNoDone
      [] p = "wgnowait" -> WgNoWait

Goroutines == DOMAIN Code(prog)
CodeOf(g) == Code(prog)[g]
Live(g) == pc[g] \in 1..Len(CodeOf(g))
Finished(g) == pc[g] = Len(CodeOf(g)) + 1
Cur(g) == CodeOf(g)[pc[g]]
At(g, ops) == Live(g) /\ Cur(g).op \in ops

(***************************************************************************)
(* Channels (channels.md 368-381, "How Channels Work")                     *)
(***************************************************************************)
ChanNames == {"ch", "done"}
NilChan == [nil |-> TRUE]

\* make(chan T, n)
MakeChanOf(n, z) == [cap |-> n, buf |-> <<>>, closed |-> FALSE, zero |-> z]

\* writing: a nil channel blocks for ever, a closed one panics, a buffer with
\* room takes the value, otherwise the sender waits for a receiver
SendOutcome(c) ==
    IF c = NilChan THEN "block"
    ELSE IF c.closed THEN "panic"
    ELSE IF Len(c.buf) < c.cap THEN "buffer"
    ELSE "wait"

\* a receive that finds a closed channel empty whatever its buffer holds
RecvOutcomeDropping(c) ==
    IF c = NilChan THEN "block"
    ELSE IF c.closed THEN "zero"
    ELSE IF c.buf # <<>> THEN "take"
    ELSE "wait"

\* reading: a nil channel blocks for ever, a buffered element is taken, a
\* closed empty channel gives the zero value, otherwise the receiver waits
RecvOutcome(c) ==
    IF c = NilChan THEN "block"
    ELSE IF c.buf # <<>> THEN "take"
    ELSE IF c.closed THEN "zero"
    ELSE "wait"

\* closing: a nil or closed channel panics
CloseOutcome(c) ==
    IF c = NilChan \/ c.closed THEN "panic" ELSE "ok"


(***************************************************************************)
(* The steps of a goroutine                                                *)
(***************************************************************************)
Advance(g) == pc' = [pc EXCEPT ![g] = @ + 1]
Goto(g, k) == pc' = [pc EXCEPT ![g] = k]

\* the value a send instruction sends: a constant, or the loop variable
SentValue(g) == IF Cur(g).op = "sendi" THEN iter[g] ELSE Cur(g).val

Sending(g, c) == At(g, {"send", "sendi"}) /\ Cur(g).ch = c
Receiving(g, c) == At(g, {"recv", "range"}) /\ Cur(g).ch = c

ProgramsInit ==
    /\ SiteIdle
    /\ prog \in ProgramNames
    /\ pc = [g \in DOMAIN Code(prog) |-> IF g = Main THEN 1 ELSE 0]
    /\ chan = [c \in ChanNames |-> NilChan]
    /\ mu = NoHolder
    /\ value = 0
    /\ tmp = [g \in DOMAIN Code(prog) |-> [v |-> 0, ok |-> FALSE]]
    /\ iter = [g \in DOMAIN Code(prog) |-> 0]
    /\ out = <<>>
    /\ status = "running"
    /\ wg = 0
    /\ clock = None

\* ch := make(chan T, n)
VM_Make(g) ==
    /\ Running /\ At(g, {"make"})
    /\ chan' = [chan EXCEPT ![Cur(g).ch] = MakeChanOf(Cur(g).cap, Cur(g).zero)]
    /\ Advance(g)
    /\ UNCHANGED <<mu, value, tmp, iter, out, status, wg, prog, clock, siteVars>>

\* var ch chan T: a nil channel
VM_Var(g) ==
    /\ Running /\ At(g, {"var"})
    /\ chan' = [chan EXCEPT ![Cur(g).ch] = NilChan]
    /\ Advance(g)
    /\ UNCHANGED <<mu, value, tmp, iter, out, status, wg, prog, clock, siteVars>>

\* go func() {...}()
VM_Go(g) ==
    /\ Running /\ At(g, {"go"})
    /\ pc' = [pc EXCEPT ![g] = @ + 1, ![Cur(g).g] = 1]
    /\ UNCHANGED <<chan, mu, value, tmp, iter, out, status, wg, prog, clock, siteVars>>

\* go func(ID int) {...}(i) in a loop: the next goroutine, its ID the value of i
VM_GoI(g) ==
    /\ Running /\ At(g, {"goi"})
    /\ pc' = [pc EXCEPT ![g] = @ + 1, ![iter[g] + 1] = 1]
    /\ iter' = [iter EXCEPT ![iter[g] + 1] = iter[g]]
    /\ UNCHANGED <<chan, mu, value, tmp, out, status, wg, prog, clock, siteVars>>

\* ch <- v into a buffer with room
VM_SendBuffer(g) ==
    /\ Running /\ At(g, {"send", "sendi"})
    /\ SendOutcome(chan[Cur(g).ch]) = "buffer"
    /\ chan' = [chan EXCEPT ![Cur(g).ch].buf = Append(@, SentValue(g))]
    /\ Advance(g)
    /\ UNCHANGED <<mu, value, tmp, iter, out, status, wg, prog, clock, siteVars>>

\* ch <- v of goroutine s meets <-ch (or range ch) of goroutine r: the value
\* passes when both wait at the channel
VM_SendRecv(s, r) ==
    /\ Running /\ s # r
    /\ At(s, {"send", "sendi"}) /\ Receiving(r, Cur(s).ch)
    /\ SendOutcome(chan[Cur(s).ch]) = "wait"
    /\ RecvOutcome(chan[Cur(s).ch]) = "wait"
    /\ tmp' = [tmp EXCEPT ![r] = [v |-> SentValue(s), ok |-> TRUE]]
    /\ pc' = [pc EXCEPT ![s] = @ + 1, ![r] = @ + 1]
    /\ UNCHANGED <<chan, mu, value, iter, out, status, wg, prog, clock, siteVars>>

\* ch <- v on a closed channel: panic
VM_SendPanic(g) ==
    /\ Running /\ At(g, {"send", "sendi"})
    /\ SendOutcome(chan[Cur(g).ch]) = "panic"
    /\ status' = "panic"
    /\ UNCHANGED <<pc, chan, mu, value, tmp, iter, out, wg, prog, clock, siteVars>>

\* <-ch (or range ch) taking the first element of the buffer
VM_RecvBuffer(g) ==
    /\ Running /\ At(g, {"recv", "range"})
    /\ RecvOutcome(chan[Cur(g).ch]) = "take"
    /\ tmp' = [tmp EXCEPT ![g] = [v |-> Head(chan[Cur(g).ch].buf), ok |-> TRUE]]
    /\ chan' = [chan EXCEPT ![Cur(g).ch].buf = Tail(@)]
    /\ Advance(g)
    /\ UNCHANGED <<mu, value, iter, out, status, wg, prog, clock, siteVars>>

\* <-ch on a closed and empty channel: the zero value and ok = false
VM_RecvClosed(g) ==
    /\ Running /\ At(g, {"recv"})
    /\ RecvOutcome(chan[Cur(g).ch]) = "zero"
    /\ tmp' = [tmp EXCEPT ![g] = [v |-> chan[Cur(g).ch].zero, ok |-> FALSE]]
    /\ Advance(g)
    /\ UNCHANGED <<chan, mu, value, iter, out, status, wg, prog, clock, siteVars>>

\* for v := range ch on a closed and empty channel: the loop ends
VM_RangeEnd(g) ==
    /\ Running /\ At(g, {"range"})
    /\ RecvOutcome(chan[Cur(g).ch]) = "zero"
    /\ Goto(g, Cur(g).to)
    /\ UNCHANGED <<chan, mu, value, tmp, iter, out, status, wg, prog, clock, siteVars>>

\* close(ch)
VM_Close(g) ==
    /\ Running /\ At(g, {"close"})
    /\ IF CloseOutcome(chan[Cur(g).ch]) = "panic"
       THEN /\ status' = "panic"
            /\ UNCHANGED <<pc, chan>>
       ELSE /\ chan' = [chan EXCEPT ![Cur(g).ch].closed = TRUE]
            /\ Advance(g)
            /\ UNCHANGED status
    /\ UNCHANGED <<mu, value, tmp, iter, out, wg, prog, clock, siteVars>>

\* fmt.Println of the value received, of a constant, or of the goroutine's ID
\* fmt.Printf("ID:%d: Hello FP routine!\n", ID)
IDLine(id) == "ID:" \o ToString(id) \o ": Hello FP routine!"

VM_Print(g) ==
    /\ Running /\ At(g, {"printtmp", "print", "printid"})
    /\ out' = Append(out,
                 CASE Cur(g).op = "printtmp" -> tmp[g].v
                   [] Cur(g).op = "print" -> Cur(g).val
                   [] Cur(g).op = "printid" ->
                        IDLine(iter[g]))
    /\ Advance(g)
    /\ UNCHANGED <<chan, mu, value, tmp, iter, status, wg, prog, clock, siteVars>>

\* for ...; i < n; ...: the loop condition
VM_For(g) ==
    /\ Running /\ At(g, {"for"})
    /\ IF iter[g] < Cur(g).n THEN Advance(g) ELSE Goto(g, Cur(g).to)
    /\ UNCHANGED <<chan, mu, value, tmp, iter, out, status, wg, prog, clock, siteVars>>

\* i++ and back to the loop condition
VM_Post(g) ==
    /\ Running /\ At(g, {"post"})
    /\ iter' = [iter EXCEPT ![g] = @ + 1]
    /\ Goto(g, Cur(g).to)
    /\ UNCHANGED <<chan, mu, value, tmp, out, status, wg, prog, clock, siteVars>>

\* the end of a loop body or of an if branch
VM_Jump(g) ==
    /\ Running /\ At(g, {"jump"})
    /\ Goto(g, Cur(g).to)
    /\ UNCHANGED <<chan, mu, value, tmp, iter, out, status, wg, prog, clock, siteVars>>

\* if value, ok := <-ch; ok {...} else {...}
VM_IfOk(g) ==
    /\ Running /\ At(g, {"ifok"})
    /\ IF tmp[g].ok THEN Advance(g) ELSE Goto(g, Cur(g).to)
    /\ UNCHANGED <<chan, mu, value, tmp, iter, out, status, wg, prog, clock, siteVars>>

\* time.Sleep(...) is over
VM_Sleep(g) ==
    /\ Running /\ At(g, {"sleep"})
    /\ Advance(g)
    /\ UNCHANGED <<chan, mu, value, tmp, iter, out, status, wg, prog, clock, siteVars>>

\* wg.Add(n)
VM_WgAdd(g) ==
    /\ Running /\ At(g, {"wgadd"})
    /\ wg' = wg + Cur(g).n
    /\ Advance(g)
    /\ UNCHANGED <<chan, mu, value, tmp, iter, out, status, prog, clock, siteVars>>

\* wg.Done(): a negative counter panics
VM_WgDone(g) ==
    /\ Running /\ At(g, {"wgdone"})
    /\ IF wg = 0
       THEN /\ status' = "panic"
            /\ UNCHANGED <<pc, wg>>
       ELSE /\ wg' = wg - 1
            /\ Advance(g)
            /\ UNCHANGED status
    /\ UNCHANGED <<chan, mu, value, tmp, iter, out, prog, clock, siteVars>>

\* Wait that returns at once
WgWaitOpenAlways == TRUE

\* wg.Wait() returns once the counter is zero
WgWaitOpen == wg = 0

VM_WgWait(g) ==
    /\ Running /\ At(g, {"wgwait"})
    /\ WgWaitOpen
    /\ Advance(g)
    /\ UNCHANGED <<chan, mu, value, tmp, iter, out, status, wg, prog, clock, siteVars>>

\* main returns: the program exits, whatever the other goroutines are doing
VM_MainReturn ==
    /\ Running /\ Finished(Main)
    /\ status' = "exited"
    /\ UNCHANGED <<pc, chan, mu, value, tmp, iter, out, wg, prog, clock, siteVars>>

\* goroutine g can take a step
CanStep(g) ==
    IF g = Main /\ Finished(g) THEN TRUE
    ELSE IF ~Live(g) THEN FALSE
    ELSE CASE Cur(g).op \in {"send", "sendi"} ->
                \/ SendOutcome(chan[Cur(g).ch]) \in {"buffer", "panic"}
                \/ /\ SendOutcome(chan[Cur(g).ch]) = "wait"
                   /\ RecvOutcome(chan[Cur(g).ch]) = "wait"
                   /\ \E r \in Goroutines \ {g} : Receiving(r, Cur(g).ch)
           [] Cur(g).op \in {"recv", "range"} ->
                \/ RecvOutcome(chan[Cur(g).ch]) \in {"take", "zero"}
                \/ /\ RecvOutcome(chan[Cur(g).ch]) = "wait"
                   /\ SendOutcome(chan[Cur(g).ch]) = "wait"
                   /\ \E x \in Goroutines \ {g} : Sending(x, Cur(g).ch)
           [] Cur(g).op = "wgwait" -> WgWaitOpen
           [] OTHER -> TRUE

\* the runtime finds every goroutine blocked: "all goroutines are asleep -
\* deadlock!"
VM_Deadlock ==
    /\ Running
    /\ \A g \in Goroutines : ~CanStep(g)
    /\ status' = "deadlock"
    /\ UNCHANGED <<pc, chan, mu, value, tmp, iter, out, wg, prog, clock, siteVars>>

ProgramsNext ==
    \/ \E g \in Goroutines : VM_Make(g)
    \/ \E g \in Goroutines : VM_Var(g)
    \/ \E g \in Goroutines : VM_Go(g)
    \/ \E g \in Goroutines : VM_GoI(g)
    \/ \E g \in Goroutines : VM_SendBuffer(g)
    \/ \E s, r \in Goroutines : VM_SendRecv(s, r)
    \/ \E g \in Goroutines : VM_SendPanic(g)
    \/ \E g \in Goroutines : VM_RecvBuffer(g)
    \/ \E g \in Goroutines : VM_RecvClosed(g)
    \/ \E g \in Goroutines : VM_RangeEnd(g)
    \/ \E g \in Goroutines : VM_Close(g)
    \/ \E g \in Goroutines : VM_Print(g)
    \/ \E g \in Goroutines : VM_For(g)
    \/ \E g \in Goroutines : VM_Post(g)
    \/ \E g \in Goroutines : VM_Jump(g)
    \/ \E g \in Goroutines : VM_IfOk(g)
    \/ \E g \in Goroutines : VM_Sleep(g)
    \/ \E g \in Goroutines : VM_WgAdd(g)
    \/ \E g \in Goroutines : VM_WgDone(g)
    \/ \E g \in Goroutines : VM_WgWait(g)
    \/ VM_MainReturn
    \/ VM_Deadlock

\* the runtime keeps running goroutines while one of them can take a step
SpecPrograms == ProgramsInit /\ [][ProgramsNext]_vars /\ WF_vars(ProgramsNext)


(***************************************************************************)
(* Properties of the channel programs                                      *)
(***************************************************************************)
Printed(x) == \E i \in 1..Len(out) : out[i] = x

C12_Safe ==
    prog = "buffered" =>
        /\ status \notin {"deadlock", "panic"}
        /\ status = "exited" =>
              /\ Finished(Main)
              /\ chan["ch"].buf = <<"Pattern">>
              /\ ~Printed("Pattern")

\* C12: in the buffered program (capacity 1, two receives, three sends) no
\* interleaving deadlocks or panics; every execution exits with all three
\* sends of main complete and "Pattern" left unread in the buffer.
C12_BufferSavesDeadlock ==
    /\ []C12_Safe
    /\ <>(prog = "buffered" => status = "exited")

\* C12 witness: the program has exited, both receives were printed and
\* "Pattern" sits in the buffer.
C12_Witness ==
    /\ prog = "buffered" /\ status = "exited"
    /\ out = <<"Follow", "The">>
    /\ chan["ch"].buf = <<"Pattern">>

C13_Safe ==
    prog = "outofcapacity" =>
        /\ status \notin {"exited", "panic"}
        /\ pc[Main] <= 6
        /\ status = "deadlock" =>
              /\ pc[Main] = 6 /\ Cur(Main) = ISend("ch", "!")
              /\ Finished(1)
              /\ out = <<"Follow", "The">>
              /\ chan["ch"].buf = <<"Pattern">>

\* C13: in the out-of-capacity program (capacity 1, two receives, four sends)
\* main never gets past the fourth send and the program never exits; every
\* execution ends in the deadlock, with the goroutine finished and main at
\* ch <- "!".
C13_OutOfCapacityDeadlocks ==
    /\ []C13_Safe
    /\ <>(prog = "outofcapacity" => status = "deadlock")

\* C13 witness: the deadlock, main at the fourth send with the buffer full.
C13_Witness ==
    /\ prog = "outofcapacity" /\ status = "deadlock"
    /\ Cur(Main) = ISend("ch", "!")
    /\ Finished(1)
    /\ Len(chan["ch"].buf) = chan["ch"].cap

C14_Safe ==
    prog = "deadlock" =>
        /\ status \notin {"exited", "panic"}
        /\ pc[Main] <= 7
        /\ \E n \in 0..2 : out = SubSeq(<<"Follow", "The">>, 1, n)
        /\ status = "deadlock" =>
              /\ pc[Main] = 7 /\ Cur(Main) = IRecv("ch")
              /\ Finished(1)
              /\ out = <<"Follow", "The">>

\* C14: in the unbuffered program where the goroutine sends two values and
\* main receives three times, main prints "Follow" then "The" and never gets
\* past its third receive; every execution ends in the deadlock, with the
\* sending goroutine finished.
C14_ReceiverDeadlocks ==
    /\ []C14_Safe
    /\ <>(prog = "deadlock" => status = "deadlock")

\* C14 witness: the deadlock, main at its third receive after printing twice.
C14_Witness ==
    /\ prog = "deadlock" /\ status = "deadlock"
    /\ pc[Main] = 7
    /\ Finished(1)
    /\ out = <<"Follow", "The">>

C15_Safe ==
    prog = "invisible" =>
        /\ status \notin {"deadlock", "panic"}
        /\ pc[1] <= 5
        /\ ~Printed("Finish printing")

\* C15: in the invisible-lock program the secondary goroutine never gets past
\* its third receive and never prints "Finish printing"; no deadlock is
\* reported, and every execution ends with main returning.
C15_InvisibleLock ==
    /\ []C15_Safe
    /\ <>(prog = "invisible" => status = "exited")

\* C15 witness: the program has exited while the secondary goroutine waits at
\* its third receive, after printing the two values sent.
C15_Witness ==
    /\ prog = "invisible" /\ status = "exited"
    /\ pc[1] = 5 /\ Cur(1) = IRecv("ch")
    /\ out = <<"Follow", "The">>


\* the values 0 .. n-1 in sending order
Counting(n) == [i \in 1..n |-> i - 1]
IsPrefix(a, b) == Len(a) <= Len(b) /\ a = SubSeq(b, 1, Len(a))

\* what main has received so far: the printed values and the one it holds
\* between the receive and the print
Received ==
    IF Live(Main) /\ Cur(Main) = IPrintTmp THEN Append(out, tmp[Main].v) ELSE out

C16_Safe ==
    prog = "sendonclosed" =>
        /\ status \notin {"exited", "deadlock"}
        /\ IsPrefix(Received, Counting(NumValues))
        /\ pc[Sender] <= 5
        /\ pc[Main] <= 7
        /\ ~Finished(Main)
        /\ status = "panic" =>
              /\ Received = Counting(NumValues)
              /\ Cur(Sender) = ISend("ch", NumValues)
              /\ chan["ch"].closed

\* C16: in the send-on-closed program every execution ends in the panic of
\* the send after close: main has then received exactly 0..19, the sender
\* never reaches done <- 0, and main never returns.
C16_SendOnClosedPanics ==
    /\ []C16_Safe
    /\ <>(prog = "sendonclosed" => status = "panic")

\* C16 witness: the panic at ch <- 20 after main has printed 0..19, left the
\* range loop and waits on done.
C16_Witness ==
    /\ prog = "sendonclosed" /\ status = "panic"
    /\ out = Counting(NumValues)
    /\ Cur(Main) = IRecv("done")
    /\ Cur(Sender) = ISend("ch", NumValues)

C17_Safe ==
    prog = "range" =>
        /\ status \notin {"panic", "deadlock"}
        /\ IsPrefix(out, Counting(NumValues))
        /\ (Finished(Main) => chan["ch"].closed /\ Finished(Sender))
        /\ status = "exited" =>
              /\ out = Counting(NumValues)
              /\ out[Len(out)] = NumValues - 1

\* C17: in the range program main prints 0..19 once each in sending order,
\* the last printed value is the last one sent, main leaves the loop only
\* once the channel is closed, and every execution exits without a panic or
\* a deadlock.
C17_RangeReceivesAll ==
    /\ []C17_Safe
    /\ <>(prog = "range" => status = "exited")

\* C17 witness: the program has exited after printing 0..19 and the channel
\* is closed.
C17_Witness ==
    /\ prog = "range" /\ status = "exited"
    /\ out = Counting(NumValues)
    /\ chan["ch"].closed


\* reading a closed channel: the close-check program and the closed buffered
\* channel that still holds two elements
C18_ReadClosed ==
    /\ prog = "closecheck" =>
          /\ status \notin {"panic", "deadlock"}
          /\ (pc[Main] >= 4 => tmp[Main] = [v |-> "", ok |-> FALSE])
          /\ IsPrefix(out, <<"channel is closed">>)
          /\ (status = "exited" => out = <<"channel is closed">>)
    /\ prog = "closedbuffered" =>
          /\ status \notin {"panic", "deadlock"}
          /\ IsPrefix(out, <<"a", "b", "channel is closed">>)
          /\ (status = "exited" => out = <<"a", "b", "channel is closed">>)

\* writing to or closing a closed channel, and closing a nil channel: the
\* operation is never passed and the program never exits
C18_Panics ==
    prog \in {"writeclosedbuffered", "closeclosedbuffered"} =>
        /\ status \notin {"exited", "deadlock"}
        /\ pc[Main] <= 3
        /\ out = <<>>

\* reading from or writing to a nil channel: the operation is never passed
C18_NilBlocks ==
    prog \in {"nilread", "nilwrite"} =>
        /\ status \notin {"exited", "panic"}
        /\ pc[Main] <= 3
        /\ out = <<>>
        /\ (prog = "nilwrite" => pc[1] <= 1)

C19_Safe ==
    prog = "wgnodone" =>
        /\ status \notin {"exited", "panic"}
        /\ pc[Main] <= 3
        /\ wg <= 1
        /\ ~Printed("Program finished!")
        /\ status = "deadlock" =>
              /\ Cur(Main) = IWgWait
              /\ Finished(1)
              /\ wg = 1
              /\ out = <<"Hello Follow The Pattern">>

\* C19: in the WaitGroup program whose goroutine never calls Done, main never
\* gets past Wait and "Program finished!" is never printed; every execution
\* ends in the "all goroutines are asleep" deadlock, after the goroutine has
\* finished.
C19_WaitWithoutDoneDeadlocks ==
    /\ []C19_Safe
    /\ <>(prog = "wgnodone" => status = "deadlock")

\* C19 witness: the deadlock, main at Wait with the counter still 1 and the
\* goroutine finished.
C19_Witness ==
    /\ prog = "wgnodone" /\ status = "deadlock"
    /\ Cur(Main) = IWgWait
    /\ wg = 1
    /\ Finished(1)

C20_Safe ==
    /\ prog = "wgsingle" =>
          /\ status \notin {"panic", "deadlock"}
          /\ pc[Main] >= 4 =>
                /\ wg = 0
                /\ Finished(1)
                /\ out[1] = "Hello Follow The Pattern"
          /\ status = "exited" =>
                out = <<"Hello Follow The Pattern", "Program finished!">>
    /\ prog = "wgfive" =>
          /\ status \notin {"panic", "deadlock"}
          /\ wg \in 0..NumberOfRoutines
          /\ pc[Main] >= 6 =>
                /\ wg = 0
                /\ \A g \in 1..NumberOfRoutines : Finished(g)
                /\ Len(out) = NumberOfRoutines
                /\ \A id \in 0..(NumberOfRoutines - 1) : Printed(IDLine(id))

\* C20: Wait lets main through only once the counter is zero: in the
\* single-goroutine and the five-goroutine programs main is past Wait only
\* after every goroutine has printed its message and called Done, no
\* execution panics or deadlocks, and every execution exits.
C20_WaitUntilZero ==
    /\ []C20_Safe
    /\ <>(prog \in {"wgsingle", "wgfive"} => status = "exited")

\* C20 witness: the five-goroutine program has exited with the ID lines
\* printed in descending order.
C20_Witness ==
    /\ prog = "wgfive" /\ status = "exited"
    /\ out = [i \in 1..NumberOfRoutines |-> IDLine(NumberOfRoutines - i)]


C21_Safe ==
    prog = "wgnowait" =>
        /\ status \notin {"deadlock", "panic"}
        /\ (status = "running" /\ Live(Main)) => CanStep(Main)
        /\ status = "exited" => Printed("Program finished!")

\* C21: in the WaitGroup program without Wait main is never blocked: it can
\* always take its next step, prints "Program finished!" and the program
\* exits in every execution, whatever the goroutine has done by then (the
\* witness is an exit before the goroutine has printed or called Done).
C21_MainNotBlocked ==
    /\ []C21_Safe
    /\ <>(prog = "wgnowait" => status = "exited")

\* C21 witness: the program has exited with "Program finished!" as its only
\* output, the goroutine not yet at its print and the counter still 1.
C21_Witness ==
    /\ prog = "wgnowait" /\ status = "exited"
    /\ out = <<"Program finished!">>
    /\ pc[1] = 1
    /\ wg = 1


(***************************************************************************)
(* The SafeData program (src/pages/sync/mutex.mdx, lines 55-111): one      *)
(* writer and three readers of a value guarded by a sync.RWMutex.  Here    *)
(* mu is the RWMutex: the goroutine holding the write lock and the set of  *)
(* goroutines holding a read lock.  The loops of the page run five times;  *)
(* MaxWrites and MaxReads bound them here.                                 *)
(***************************************************************************)
MaxWrites == 1
MaxReads == 1
NumReaders == 3
Writer == 1
FirstReader == 2
SafeReaders == FirstReader..(FirstReader + NumReaders - 1)

\* var mu sync.RWMutex: unlocked
RWUnlocked == [writer |-> NoHolder, readers |-> {}]

\* RLock that does not wait for the writer to unlock
CanRLockAlways == TRUE

\* s.mu.RLock() proceeds while no writer holds the lock
CanRLock == mu.writer = NoHolder

\* s.mu.Lock() proceeds while nobody holds the lock, reading or writing
CanWLock == mu.writer = NoHolder /\ mu.readers = {}

\* fmt.Println("Written:", i)
WrittenLine(i) == "Written: " \o ToString(i)

\* fmt.Printf("Reader %d read: %d\n", id, val)
ReaderLine(id, val) == "Reader " \o ToString(id) \o " read: " \o ToString(val)

SafeDataInit ==
    /\ SiteIdle
    /\ pc = [g \in {Main, Writer} \cup SafeReaders |->
                IF g = Main THEN "addw" ELSE "unborn"]
    /\ chan = None
    /\ mu = RWUnlocked
    /\ value = 0
    /\ tmp = [g \in SafeReaders |-> 0]
    /\ iter = [g \in {Main, Writer} \cup SafeReaders |-> IF g = Writer THEN 1 ELSE 0]
    /\ out = <<>>
    /\ status = "running"
    /\ prog = "safedata"
    /\ wg = 0
    /\ clock = None

\* main: wg.Add(1) before the writer goroutine
SD_AddWriter ==
    /\ Running /\ pc[Main] = "addw"
    /\ wg' = wg + 1
    /\ pc' = [pc EXCEPT ![Main] = "gow"]
    /\ UNCHANGED <<chan, mu, value, tmp, iter, out, status, prog, clock, siteVars>>

\* main: go func() {...}(), the writer; it enters its loop at i = 1
SD_GoWriter ==
    /\ Running /\ pc[Main] = "gow"
    /\ pc' = [pc EXCEPT ![Main] = "for", ![Writer] = "lock"]
    /\ UNCHANGED <<chan, mu, value, tmp, iter, out, status, wg, prog, clock, siteVars>>

\* main: for i := 0; i < 3; i++, the condition
SD_For ==
    /\ Running /\ pc[Main] = "for"
    /\ pc' = [pc EXCEPT ![Main] = IF iter[Main] < NumReaders THEN "addr" ELSE "wait"]
    /\ UNCHANGED <<chan, mu, value, tmp, iter, out, status, wg, prog, clock, siteVars>>

\* main: wg.Add(1) before a reader goroutine
SD_AddReader ==
    /\ Running /\ pc[Main] = "addr"
    /\ wg' = wg + 1
    /\ pc' = [pc EXCEPT ![Main] = "gor"]
    /\ UNCHANGED <<chan, mu, value, tmp, iter, out, status, prog, clock, siteVars>>

\* main: go func(id int) {...}(i), and i++; the reader enters its loop at
\* j = 0
SD_GoReader ==
    /\ Running /\ pc[Main] = "gor"
    /\ pc' = [pc EXCEPT ![Main] = "for", ![FirstReader + iter[Main]] = "rlock"]
    /\ iter' = [iter EXCEPT ![Main] = @ + 1]
    /\ UNCHANGED <<chan, mu, value, tmp, out, status, wg, prog, clock, siteVars>>


\* Write: s.mu.Lock(); defer s.mu.Unlock()
SD_Lock ==
    /\ Running /\ pc[Writer] = "lock"
    /\ CanWLock
    /\ mu' = [mu EXCEPT !.writer = Writer]
    /\ pc' = [pc EXCEPT ![Writer] = "store"]
    /\ UNCHANGED <<chan, value, tmp, iter, out, status, wg, prog, clock, siteVars>>

\* Write: s.value = val
SD_Store ==
    /\ Running /\ pc[Writer] = "store"
    /\ value' = iter[Writer]
    /\ pc' = [pc EXCEPT ![Writer] = "unlock"]
    /\ UNCHANGED <<chan, mu, tmp, iter, out, status, wg, prog, clock, siteVars>>

\* Write returns: the deferred s.mu.Unlock() runs
SD_Unlock ==
    /\ Running /\ pc[Writer] = "unlock"
    /\ mu' = [mu EXCEPT !.writer = NoHolder]
    /\ pc' = [pc EXCEPT ![Writer] = "print"]
    /\ UNCHANGED <<chan, value, tmp, iter, out, status, wg, prog, clock, siteVars>>

\* writer: fmt.Println("Written:", i)
SD_WriterPrint ==
    /\ Running /\ pc[Writer] = "print"
    /\ out' = Append(out, WrittenLine(iter[Writer]))
    /\ pc' = [pc EXCEPT ![Writer] = "sleep"]
    /\ UNCHANGED <<chan, mu, value, tmp, iter, status, wg, prog, clock, siteVars>>

\* writer: time.Sleep(100 * time.Millisecond) is over, i++ and the loop
\* condition i <= 5; after the loop the goroutine returns and the deferred
\* wg.Done() runs
SD_WriterSleep ==
    /\ Running /\ pc[Writer] = "sleep"
    /\ iter' = [iter EXCEPT ![Writer] = @ + 1]
    /\ IF iter[Writer] + 1 <= MaxWrites
       THEN /\ pc' = [pc EXCEPT ![Writer] = "lock"]
            /\ UNCHANGED wg
       ELSE /\ pc' = [pc EXCEPT ![Writer] = "done"]
            /\ wg' = wg - 1
    /\ UNCHANGED <<chan, mu, value, tmp, out, status, prog, clock, siteVars>>

\* Read: s.mu.RLock(); defer s.mu.RUnlock()
SD_RLock(g) ==
    /\ Running /\ pc[g] = "rlock"
    /\ CanRLock
    /\ mu' = [mu EXCEPT !.readers = @ \cup {g}]
    /\ pc' = [pc EXCEPT ![g] = "read"]
    /\ UNCHANGED <<chan, value, tmp, iter, out, status, wg, prog, clock, siteVars>>

\* Read: return s.value, into val; the deferred s.mu.RUnlock() runs
SD_ReadReturn(g) ==
    /\ Running /\ pc[g] = "read"
    /\ tmp' = [tmp EXCEPT ![g] = value]
    /\ mu' = [mu EXCEPT !.readers = @ \ {g}]
    /\ pc' = [pc EXCEPT ![g] = "print"]
    /\ UNCHANGED <<chan, value, iter, out, status, wg, prog, clock, siteVars>>

\* reader g: fmt.Printf("Reader %d read: %d\n", id, val); val is dead afterwards
SD_ReaderPrint(g) ==
    /\ Running /\ pc[g] = "print"
    /\ out' = Append(out, ReaderLine(g - FirstReader, tmp[g]))
    /\ tmp' = [tmp EXCEPT ![g] = 0]
    /\ pc' = [pc EXCEPT ![g] = "sleep"]
    /\ UNCHANGED <<chan, mu, value, iter, status, wg, prog, clock, siteVars>>

\* reader g: time.Sleep(50 * time.Millisecond) is over, j++ and the loop
\* condition j < 5; after the loop the goroutine returns and the deferred
\* wg.Done() runs
SD_ReaderSleep(g) ==
    /\ Running /\ pc[g] = "sleep"
    /\ iter' = [iter EXCEPT ![g] = @ + 1]
    /\ IF iter[g] + 1 < MaxReads
       THEN /\ pc' = [pc EXCEPT ![g] = "rlock"]
            /\ UNCHANGED wg
       ELSE /\ pc' = [pc EXCEPT ![g] = "done"]
            /\ wg' = wg - 1
    /\ UNCHANGED <<chan, mu, value, tmp, out, status, prog, clock, siteVars>>

\* main: wg.Wait()
SD_Wait ==
    /\ Running /\ pc[Main] = "wait"
    /\ WgWaitOpen
    /\ pc' = [pc EXCEPT ![Main] = "returned"]
    /\ UNCHANGED <<chan, mu, value, tmp, iter, out, status, wg, prog, clock, siteVars>>

\* main returns and the program exits
SD_Exit ==
    /\ Running /\ pc[Main] = "returned"
    /\ status' = "exited"
    /\ UNCHANGED <<pc, chan, mu, value, tmp, iter, out, wg, prog, clock, siteVars>>

SafeDataNext ==
    \/ SD_AddWriter
    \/ SD_GoWriter
    \/ SD_For
    \/ SD_AddReader
    \/ SD_GoReader
    \/ SD_Lock
    \/ SD_Store
    \/ SD_Unlock
    \/ SD_WriterPrint
    \/ SD_WriterSleep
    \/ \E g \in SafeReaders : SD_RLock(g)
    \/ \E g \in SafeReaders : SD_ReadReturn(g)
    \/ \E g \in SafeReaders : SD_ReaderPrint(g)
    \/ \E g \in SafeReaders : SD_ReaderSleep(g)
    \/ SD_Wait
    \/ SD_Exit

SpecSafeData == SafeDataInit /\ [][SafeDataNext]_vars /\ WF_vars(SafeDataNext)


\* the writer is inside Write, between Lock and the deferred Unlock
WriterInside == pc[Writer] \in {"store", "unlock"}

\* the readers inside Read, between RLock and the deferred RUnlock
ReadersInside == {g \in SafeReaders : pc[g] = "read"}

\* the number of s.value = val executed so far; Write(i) stores i
StoresDone ==
    IF pc[Writer] \in {"unlock", "print", "sleep"} THEN iter[Writer]
    ELSE iter[Writer] - 1

SafeDataLines ==
    {WrittenLine(i) : i \in 1..StoresDone}
        \cup {ReaderLine(id, v) : id \in 0..(NumReaders - 1), v \in 0..StoresDone}

C22_Safe ==
    /\ WriterInside => (ReadersInside = {} /\ mu.readers = {})
    /\ (mu.writer # NoHolder) <=> WriterInside
    /\ mu.writer \in {NoHolder, Writer}
    /\ mu.readers = ReadersInside
    /\ value = StoresDone
    /\ \A g \in SafeReaders : pc[g] = "print" => tmp[g] \in 0..StoresDone
    /\ \A i \in 1..Len(out) : out[i] \in SafeDataLines
    /\ wg >= 0
    /\ pc[Main] = "returned" =>
          /\ wg = 0
          /\ \A g \in {Writer} \cup SafeReaders : pc[g] = "done"
          /\ Len(out) = MaxWrites + NumReaders * MaxReads

\* C22: in the SafeData program the writer inside Write excludes every
\* reader (and the write lock has at most one holder), readers may be inside
\* Read together, every Read returns 0 or a value a Write has stored, main
\* passes Wait only after the writer and the three readers have called Done,
\* and every execution exits.
C22_ReadersWriter ==
    /\ []C22_Safe
    /\ <>(status = "exited")

\* C22 witness: two readers are inside Read at once, after a Write has
\* stored a value.
C22_Witness ==
    /\ prog = "safedata"
    /\ Cardinality(ReadersInside) >= 2
    /\ value >= 1
    /\ ~WriterInside


(***************************************************************************)
(* The Singleton (src/pages/standard-library/sync.mdx, lines 326-342):     *)
(* GetInstance called by MaxCallers goroutines, MaxCalls times each.  Here *)
(* mu is the sync.Once (done flag and the goroutine running the            *)
(* initializer) and value is the variable instance: 0 for nil, otherwise   *)
(* the number of the allocation &Singleton{} it points to.                 *)
(***************************************************************************)
MaxCallers == 3
MaxCalls == 2
Callers == 1..MaxCallers
NilInstance == 0

\* var once sync.Once
OnceFresh == [done |-> FALSE, holder |-> NoHolder]

\* a Do that returns at once while another call runs the initializer
OnceOutcomeRacy(o) ==
    IF o.done \/ o.holder # NoHolder THEN "skip" ELSE "run"

\* once.Do(f): f runs in the first call; a call made while f runs waits for
\* it to return; later calls return without running f
OnceOutcome(o) ==
    IF o.done THEN "skip"
    ELSE IF o.holder # NoHolder THEN "wait"
    ELSE "run"

SingletonInit ==
    /\ SiteIdle
    /\ pc = [g \in Callers |-> "idle"]
    /\ chan = None
    /\ mu = OnceFresh
    /\ value = NilInstance
    /\ tmp = [g \in Callers |-> NilInstance]
    /\ iter = [g \in Callers |-> 0]
    /\ out = <<>>
    /\ status = "running"
    /\ prog = "singleton"
    /\ wg = 0
    /\ clock = None

\* goroutine g calls GetInstance()
SG_Call(g) ==
    /\ pc[g] = "idle" /\ iter[g] < MaxCalls
    /\ iter' = [iter EXCEPT ![g] = @ + 1]
    /\ pc' = [pc EXCEPT ![g] = "do"]
    /\ UNCHANGED <<chan, mu, value, tmp, out, status, wg, prog, clock, siteVars>>

\* once.Do(...): enter the initializer, or return without running it
SG_Do(g) ==
    /\ pc[g] = "do"
    /\ OnceOutcome(mu) # "wait"
    /\ IF OnceOutcome(mu) = "run"
       THEN /\ mu' = [mu EXCEPT !.holder = g]
            /\ pc' = [pc EXCEPT ![g] = "init"]
       ELSE /\ pc' = [pc EXCEPT ![g] = "return"]
            /\ UNCHANGED mu
    /\ UNCHANGED <<chan, value, tmp, iter, out, status, wg, prog, clock, siteVars>>

\* the initializer: instance = &Singleton{}, a new allocation
SG_Init(g) ==
    /\ pc[g] = "init"
    /\ value' = value + 1
    /\ pc' = [pc EXCEPT ![g] = "initdone"]
    /\ UNCHANGED <<chan, mu, tmp, iter, out, status, wg, prog, clock, siteVars>>

\* the initializer returns: once is done
SG_DoReturn(g) ==
    /\ pc[g] = "initdone"
    /\ mu' = [done |-> TRUE, holder |-> NoHolder]
    /\ pc' = [pc EXCEPT ![g] = "return"]
    /\ UNCHANGED <<chan, value, tmp, iter, out, status, wg, prog, clock, siteVars>>

\* return instance
SG_Return(g) ==
    /\ pc[g] = "return"
    /\ tmp' = [tmp EXCEPT ![g] = value]
    /\ pc' = [pc EXCEPT ![g] = "got"]
    /\ UNCHANGED <<chan, mu, value, iter, out, status, wg, prog, clock, siteVars>>

\* the caller is through with the pointer it got
SG_Drop(g) ==
    /\ pc[g] = "got"
    /\ tmp' = [tmp EXCEPT ![g] = NilInstance]
    /\ pc' = [pc EXCEPT ![g] = "idle"]
    /\ UNCHANGED <<chan, mu, value, iter, out, status, wg, prog, clock, siteVars>>

SingletonNext ==
    \/ \E g \in Callers : SG_Call(g)
    \/ \E g \in Callers : SG_Do(g)
    \/ \E g \in Callers : SG_Init(g)
    \/ \E g \in Callers : SG_DoReturn(g)
    \/ \E g \in Callers : SG_Return(g)
    \/ \E g \in Callers : SG_Drop(g)

SpecSingleton == SingletonInit /\ [][SingletonNext]_vars

C23_Safe ==
    /\ value \in {NilInstance, 1}
    /\ mu.done => value = 1
    /\ Cardinality({g \in Callers : pc[g] \in {"init", "initdone"}}) <= 1
    /\ \A g \in Callers : pc[g] = "return" => value = 1
    /\ \A g \in Callers : pc[g] = "got" => (tmp[g] = 1 /\ tmp[g] = value)

\* C23: with goroutines calling GetInstance concurrently, the initializer
\* given to once.Do runs at most once (and has run before any call
\* returns), instance is never assigned again once it is set, and every call
\* returns that one instance, never nil.
C23_OneInstance ==
    /\ []C23_Safe
    /\ [][value # NilInstance => value' = value]_vars

\* C23 witness: two callers hold the instance returned to them while a third
\* call is on its way, and the initializer has run once.
C23_Witness ==
    /\ prog = "singleton"
    /\ Cardinality({g \in Callers : pc[g] = "got"}) >= 2
    /\ \E g \in Callers : pc[g] \in {"do", "return"}
    /\ value = 1 /\ mu.done


(***************************************************************************)
(* The select programs (src/pages/select.mdx, lines 24-53 and 59-93): two  *)
(* goroutines send on ch1 and ch2 after time.Sleep of 2 and 3 seconds;     *)
(* main selects once ("select"), or in a loop with a time.After case       *)
(* ("selectloop").  Here clock holds the time, in ticks, and the time each  *)
(* goroutine's timer is due.  A timer fires when it is due or up to MaxLag *)
(* ticks later; computing takes no time: time passes only while every      *)
(* goroutine waits.                                                        *)
(***************************************************************************)
SelectPrograms == {"select", "selectloop"}
Senders == {1, 2}
NoTimer == -1
AfterSeconds == 4
TicksPerSecond == 4
MaxLag == 1

\* time.Second * n, in ticks
Seconds(n) == n * TicksPerSecond

\* the second goroutine sleeping longer than a timeout after the first
SleepOfLate(g) == IF g = 1 THEN 2 ELSE 7

\* time.Sleep(time.Second * 2) in the first goroutine, * 3 in the second
SleepOf(g) == IF g = 1 THEN 2 ELSE 3

\* ch1 in the first goroutine, ch2 in the second
ChanOf(g) == IF g = 1 THEN "ch1" ELSE "ch2"

\* ch1 <- "Hello", ch2 <- "Follow The Pattern"
MessageOf(g) == IF g = 1 THEN "Hello" ELSE "Follow The Pattern"

\* a timer that fires whenever the goroutine is scheduled
TimerDueAnytime(g) == TRUE

\* the timer of goroutine g can fire
TimerDue(g) == clock.due[g] # NoTimer /\ clock.now >= clock.due[g]

\* the timer of goroutine g fires now at the latest
TimerOverdue(g) == clock.due[g] # NoTimer /\ clock.now >= clock.due[g] + MaxLag

\* the select of the loop has the case <-time.After(...)
HasTimeout == prog = "selectloop"

SelectInit ==
    /\ SiteIdle
    /\ prog \in SelectPrograms
    /\ pc = [g \in {Main} \cup Senders |-> IF g = Main THEN "make1" ELSE "unborn"]
    /\ chan = [c \in {"ch1", "ch2"} |-> NilChan]
    /\ mu = NoHolder
    /\ value = 0
    /\ tmp = [g \in {Main} |-> ""]
    /\ iter = [g \in {Main} |-> 0]
    /\ out = <<>>
    /\ status = "running"
    /\ wg = 0
    /\ clock = [now |-> 0, due |-> [g \in {Main} \cup Senders |-> NoTimer]]

\* ch1 := make(chan string)
SL_Make1 ==
    /\ Running /\ pc[Main] = "make1"
    /\ chan' = [chan EXCEPT !["ch1"] = MakeChanOf(0, "")]
    /\ pc' = [pc EXCEPT ![Main] = "make2"]
    /\ UNCHANGED <<mu, value, tmp, iter, out, status, wg, prog, clock, siteVars>>

\* ch2 := make(chan string)
SL_Make2 ==
    /\ Running /\ pc[Main] = "make2"
    /\ chan' = [chan EXCEPT !["ch2"] = MakeChanOf(0, "")]
    /\ pc' = [pc EXCEPT ![Main] = "go1"]
    /\ UNCHANGED <<mu, value, tmp, iter, out, status, wg, prog, clock, siteVars>>

\* go func() {...}(), the first and then the second goroutine
SL_Go ==
    /\ Running /\ pc[Main] \in {"go1", "go2"}
    /\ pc' = IF pc[Main] = "go1"
             THEN [pc EXCEPT ![Main] = "go2", ![1] = "sleep"]
             ELSE [pc EXCEPT ![Main] = "select", ![2] = "sleep"]
    /\ UNCHANGED <<chan, mu, value, tmp, iter, out, status, wg, prog, clock, siteVars>>

\* goroutine g: time.Sleep(...) begins
SL_Sleep(g) ==
    /\ Running /\ pc[g] = "sleep"
    /\ clock' = [clock EXCEPT !.due[g] = clock.now + Seconds(SleepOf(g))]
    /\ pc' = [pc EXCEPT ![g] = "sleeping"]
    /\ UNCHANGED <<chan, mu, value, tmp, iter, out, status, wg, prog, siteVars>>

\* goroutine g: time.Sleep(...) is over
SL_Wake(g) ==
    /\ Running /\ pc[g] = "sleeping"
    /\ TimerDue(g)
    /\ clock' = [clock EXCEPT !.due[g] = NoTimer]
    /\ pc' = [pc EXCEPT ![g] = "send"]
    /\ UNCHANGED <<chan, mu, value, tmp, iter, out, status, wg, prog, siteVars>>


\* main reaches select: its cases are evaluated, time.After(time.Second * 4)
\* starts a timer in the program that has the case
SL_SelectEnter ==
    /\ Running /\ pc[Main] = "select"
    /\ clock' = [clock EXCEPT !.due[Main] =
                    IF HasTimeout THEN clock.now + Seconds(AfterSeconds) ELSE NoTimer]
    /\ pc' = [pc EXCEPT ![Main] = "selecting"]
    /\ UNCHANGED <<chan, mu, value, tmp, iter, out, status, wg, prog, siteVars>>

\* case msg := <-ch1 or <-ch2 is selected: the send of goroutine g meets it
SL_SelectRecv(g) ==
    /\ Running /\ pc[Main] = "selecting" /\ pc[g] = "send"
    /\ SendOutcome(chan[ChanOf(g)]) = "wait"
    /\ tmp' = [tmp EXCEPT ![Main] = MessageOf(g)]
    /\ pc' = [pc EXCEPT ![Main] = "print", ![g] = "done"]
    /\ clock' = [clock EXCEPT !.due[Main] = NoTimer]
    /\ UNCHANGED <<chan, mu, value, iter, out, status, wg, prog, siteVars>>

\* case <-time.After(time.Second * 4) is selected
SL_SelectTimeout ==
    /\ Running /\ pc[Main] = "selecting"
    /\ HasTimeout /\ TimerDue(Main)
    /\ pc' = [pc EXCEPT ![Main] = "printtimeout"]
    /\ clock' = [clock EXCEPT !.due[Main] = NoTimer]
    /\ UNCHANGED <<chan, mu, value, tmp, iter, out, status, wg, prog, siteVars>>

\* fmt.Println(msg); the single select is followed by the end of main, the
\* select of the loop by the next iteration
SL_Print ==
    /\ Running /\ pc[Main] = "print"
    /\ out' = Append(out, tmp[Main])
    /\ tmp' = [tmp EXCEPT ![Main] = ""]
    /\ pc' = [pc EXCEPT ![Main] = IF HasTimeout THEN "select" ELSE "returned"]
    /\ UNCHANGED <<chan, mu, value, iter, status, wg, prog, clock, siteVars>>

\* fmt.Println("times out"); return
SL_PrintTimeout ==
    /\ Running /\ pc[Main] = "printtimeout"
    /\ out' = Append(out, "times out")
    /\ pc' = [pc EXCEPT ![Main] = "returned"]
    /\ UNCHANGED <<chan, mu, value, tmp, iter, status, wg, prog, clock, siteVars>>

\* main has returned: the program exits
SL_Exit ==
    /\ Running /\ pc[Main] = "returned"
    /\ status' = "exited"
    /\ UNCHANGED <<pc, chan, mu, value, tmp, iter, out, wg, prog, clock, siteVars>>

\* some goroutine takes a step before time passes
SelectBusy ==
    \/ pc[Main] # "selecting"
    \/ \E g \in Senders : pc[g] \in {"sleep", "send"}
    \/ \E g \in {Main} \cup Senders : TimerOverdue(g)

\* a tick passes, while every goroutine waits and some timer is pending
SL_Tick ==
    /\ Running /\ ~SelectBusy
    /\ \E g \in {Main} \cup Senders : clock.due[g] # NoTimer
    /\ clock' = [clock EXCEPT !.now = @ + 1]
    /\ UNCHANGED <<pc, chan, mu, value, tmp, iter, out, status, wg, prog, siteVars>>

SelectNext ==
    \/ SL_Make1
    \/ SL_Make2
    \/ SL_Go
    \/ \E g \in Senders : SL_Sleep(g)
    \/ \E g \in Senders : SL_Wake(g)
    \/ SL_SelectEnter
    \/ \E g \in Senders : SL_SelectRecv(g)
    \/ SL_SelectTimeout
    \/ SL_Print
    \/ SL_PrintTimeout
    \/ SL_Exit
    \/ SL_Tick

SpecSelect == SelectInit /\ [][SelectNext]_vars /\ WF_vars(SelectNext)


C24_Safe ==
    prog = "selectloop" =>
        /\ IsPrefix(out, <<"Hello", "Follow The Pattern", "times out">>)
        /\ status = "exited" =>
              /\ out = <<"Hello", "Follow The Pattern", "times out">>
              /\ \A g \in Senders : pc[g] = "done"
              /\ clock.now >= Seconds(SleepOf(2)) + Seconds(AfterSeconds)

C25_Safe ==
    prog = "select" =>
        /\ IsPrefix(out, <<"Hello">>)
        /\ pc[2] # "done"
        /\ tmp[Main] \in {"", "Hello"}
        /\ pc[Main] \in {"print", "returned"} => pc[1] = "done"
        /\ status = "exited" =>
              /\ out = <<"Hello">>
              /\ clock.now < Seconds(SleepOf(2))

====
